---- MODULE Spec2Model ----
(***************************************************************************)
(* deploy-helper: the `update` and `run` subcommands (src/src/main.rs) as  *)
(* a state machine.  Several invocations (OS processes) run concurrently on one    *)
(* host; they share the advisory lock files under /var/lock, the unit      *)
(* files under /etc/systemd/system and the watched executables.            *)
(***************************************************************************)
EXTENDS Integers, Sequences, FiniteSets, TLC

(* ---- bounds of the model ---------------------------------------------- *)
NumProcs == 2      \* invocations that may run at the same time
MaxRuns == 3       \* invocations started in one behaviour
MaxCmds == 2       \* length of update.commands and of run.commands

Procs == 1..NumProcs

(* ---- files ------------------------------------------------------------ *)
NoFile == [exists |-> FALSE, data |-> ""]
File(data) == [exists |-> TRUE, data |-> data]

(* ---- paths: std::path::Path as root flag + components ------------------ *)
MkPath(root, comps) == [root |-> root, comps |-> comps]
DemoConfig == MkPath(TRUE, <<"srv", "demo", "deploy.yaml">>)
OtherConfig == MkPath(TRUE, <<"srv", "other", "deploy.yaml">>)
BareConfig == MkPath(FALSE, <<"deploy.yaml">>)
RootDir == MkPath(TRUE, <<>>)
StartDir == MkPath(TRUE, <<"srv", "demo">>)
ConfigPaths == {DemoConfig, OtherConfig, BareConfig, RootDir}
Dirs == {RootDir, MkPath(TRUE, <<"srv">>), StartDir, MkPath(TRUE, <<"srv", "other">>)}

RECURSIVE JoinComps(_)
JoinComps(comps) ==
    IF comps = <<>> THEN ""
    ELSE IF Len(comps) = 1 THEN comps[1]
    ELSE comps[1] \o "/" \o JoinComps(Tail(comps))

\* Path::display
Display(path) == (IF path.root THEN "/" ELSE "") \o JoinComps(path.comps)

\* Path::parent: None for "/" and for "", else the path without its last component
HasParent(path) == path.comps # <<>>
Parent(path) == MkPath(path.root, SubSeq(path.comps, 1, Len(path.comps) - 1))

\* chdir(2): the directory must exist; the empty path is ENOENT
DirExists(dir) == dir \in Dirs

(* ---- configuration ----------------------------------------------------- *)
Names == {"demo", "other"}
Intervals == {60, 120}
\* ncmds, nrun: the lengths of update.commands and run.commands
NoConfig ==
    [path |-> RootDir, program_name |-> "", interval |-> 0, ncmds |-> 0, nrun |-> 0]
MkConfig(path, name, interval, ncmds, nrun) ==
    [path |-> path, program_name |-> name, interval |-> interval, ncmds |-> ncmds,
     nrun |-> nrun]
\* ARGS.command
Commands == {"update", "run"}

\* the hosts the model is run on.  A host is: how many invocations can overlap and
\* how many are started in all, the
\* texts each config file may hold when it is read (the operator edits interval and
\* command list between invocations), the statuses systemctl exits with, what an
\* update command may leave at binary_path, and whether system calls other than
\* the lock attempt can fail (no bash, no systemctl, read-only /etc, ...).
\* One program, invocations one after the other, config files that hold MaxCmds
\* commands split in every way between update.commands and run.commands:
SequentialHost ==
    [slots |-> 1,
     runs |-> MaxRuns,
     configs |-> { MkConfig(DemoConfig, "demo", i, n, MaxCmds - n) :
                     i \in Intervals, n \in 0..MaxCmds },
     systemctl |-> {0, 1},
     builds |-> {NoFile, File("v1"), File("v2")},
     faults |-> TRUE]
\* two programs with one update and one run command each, overlapping
\* invocations, a healthy service manager:
ConcurrentHost ==
    [slots |-> NumProcs,
     runs |-> NumProcs,
     configs |-> { MkConfig(DemoConfig, "demo", 60, 1, 1),
                   MkConfig(OtherConfig, "other", 60, 1, 1) },
     systemctl |-> {0},
     builds |-> {File("v1")},
     faults |-> FALSE]

(* ---- unit files (main.rs 100-157) --------------------------------------- *)
DeployHelperExe == "/usr/bin/deploy-helper"
UpdateSvcName(name) == "update-" \o name \o ".service"
UpdateTimerName(name) == "update-" \o name \o ".timer"
RunSvcName(name) == "run-" \o name \o ".service"
UnitFileNames ==
    UNION { {UpdateSvcName(n), UpdateTimerName(n), RunSvcName(n)} : n \in Names }

\* (variant: the update interval also shows in the update service's description)
UpdateUnit_WithInterval(c) ==
    "[Unit]\n"
    \o "Description=deploy-helper update for " \o c.program_name
    \o " every " \o ToString(c.interval) \o "\n"
    \o "Wants=" \o RunSvcName(c.program_name) \o "\n"
    \o "After=network-online.target\n"
    \o "\n"
    \o "[Service]\n"
    \o "Type=oneshot \n"
    \o "ExecStart=" \o DeployHelperExe \o " update " \o Display(c.path) \o "\n"

UpdateUnit(c) ==
    "[Unit]\n"
    \o "Description=deploy-helper update for " \o c.program_name \o "\n"
    \o "Wants=" \o RunSvcName(c.program_name) \o "\n"
    \o "After=network-online.target\n"
    \o "\n"
    \o "[Service]\n"
    \o "Type=oneshot \n"
    \o "ExecStart=" \o DeployHelperExe \o " update " \o Display(c.path) \o "\n"

TimerUnit(c) ==
    "[Unit]\n"
    \o "Description=deploy-helper update timer for " \o c.program_name \o "\n"
    \o "\n"
    \o "[Timer]\n"
    \o "OnBootSec=1min\n"
    \o "OnUnitActiveSec=" \o ToString(c.interval) \o "\n"
    \o "Unit=" \o UpdateSvcName(c.program_name) \o "\n"
    \o "\n"
    \o "[Install]\n"
    \o "WantedBy=timers.target\n"

RunUnit(c) ==
    "[Unit]\n"
    \o "Description=deploy-helper run for " \o c.program_name \o "\n"
    \o "\n"
    \o "[Service]\n"
    \o "Type=simple \n"
    \o "ExecStart=" \o DeployHelperExe \o " run " \o Display(c.path) \o "\n"
    \o "Restart=on-failure\n"
    \o "RestartSec=5\n"
    \o "\n"
    \o "[Install]\n"
    \o "WantedBy=multi-user.target\n"

(* ---- state --------------------------------------------------------------- *)
VARIABLES
    pc,        \* per process: where the invocation stands
    command,   \* per process: the subcommand it was started with
    cfg,       \* per process: the Config parse_config returned
    ci,        \* per process: index of the update command the loop is at
    cwd,       \* per process: current working directory
    locks,     \* per program name: processes whose lock_file holds the flock
    exe,       \* per program name: the file at config.binary_path; it is written
               \* by that program's update commands only, while they run
    sysd,      \* per unit file name: the file in /etc/systemd/system
    trace,     \* per process: what the invocation has done so far (history)
    result,    \* per process: what update() returned
    exitCode,  \* per process: exit status of the process, -1 while it runs
    runs,      \* invocations started so far
    released,  \* per program name: how the last holder of its lock left update() (history)
    host       \* the host the invocations run on (never changes)

vars ==
    <<pc, command, cfg, ci, cwd, locks, exe, sysd, trace, result, exitCode, runs, released,
      host>>

\* a relative path is resolved against the current directory
Resolve(base, path) == IF path.root THEN path ELSE MkPath(TRUE, base.comps \o path.comps)

\* what fs::read_to_string + serde_yaml find at a path when the process starts
ConfigsAt(path) ==
    { MkConfig(path, c.program_name, c.interval, c.ncmds, c.nrun) :
        c \in { d \in host.configs : d.path = Resolve(StartDir, path) } }

ExitStatuses == {0, 1}
\* outcomes of a system call that can fail: TRUE is success
Outcomes == IF host.faults THEN BOOLEAN ELSE {TRUE}
Running == -1

\* one entry of the history: kind, a number (command index, exit status), a string
\* (command line, file name, bytes) and, for a write, what was at the path before
Ev(k, i, s) == [k |-> k, i |-> i, s |-> s, was |-> ""]
EvWrite(name, prior) == [k |-> "write", i |-> 0, s |-> name, was |-> prior]

InitOn(h) ==
    /\ host = h
    /\ pc = [p \in Procs |-> "idle"]
    /\ command = [p \in Procs |-> "none"]
    /\ cfg = [p \in Procs |-> NoConfig]
    /\ ci = [p \in Procs |-> 0]
    /\ cwd = [p \in Procs |-> StartDir]
    /\ locks = [n \in Names |-> {}]
    /\ exe = [n \in Names |-> NoFile]
    /\ sysd = [f \in UnitFileNames |-> NoFile]
    /\ trace = [p \in Procs |-> <<>>]
    /\ result = [p \in Procs |-> "none"]
    /\ exitCode = [p \in Procs |-> Running]
    /\ runs = 0
    /\ released = [n \in Names |-> "never"]

Init == InitOn(SequentialHost)
InitConcurrent == InitOn(ConcurrentHost)

(* ---- leaving update(): locals are dropped, lock_file among them ---------- *)
\* (variant: the lock is given back only where update() ends with Ok)
DropLockFile_OnOkOnly(p, res) ==
    IF res = "ok" THEN [n \in Names |-> locks[n] \ {p}] ELSE locks

\* File::drop closes the descriptor, which releases the flock it holds
DropLockFile(p, res) == [n \in Names |-> locks[n] \ {p}]

Return(p, res, evs) ==
    /\ pc' = [pc EXCEPT ![p] = "returned"]
    /\ result' = [result EXCEPT ![p] = res]
    /\ trace' = [trace EXCEPT ![p] = @ \o evs]
    /\ locks' = DropLockFile(p, res)
    /\ released' = [n \in Names |-> IF p \in locks[n] THEN res ELSE released[n]]

(* ---- update(), main.rs 72-178 --------------------------------------------- *)
\* process start, `match &ARGS.command`, and the parse_config (config.rs 26-34)
\* both update() and run() begin with: it panics on an unreadable file
ParseConfig(p) ==
    /\ p <= host.slots
    /\ pc[p] \in {"idle", "exited"}
    /\ runs < host.runs
    /\ runs' = runs + 1
    /\ \E path \in ConfigPaths, c \in Commands :
         /\ command' = [command EXCEPT ![p] = c]
         /\ cwd' = [cwd EXCEPT ![p] = StartDir]
         /\ ci' = [ci EXCEPT ![p] = 0]
         /\ trace' = [trace EXCEPT ![p] = <<>>]
         /\ IF ConfigsAt(path) = {}
            THEN /\ pc' = [pc EXCEPT ![p] = "exited"]
                 /\ cfg' = [cfg EXCEPT ![p] = NoConfig]
                 /\ result' = [result EXCEPT ![p] = "panic"]
                 /\ exitCode' = [exitCode EXCEPT ![p] = 101]
            ELSE /\ \E config \in ConfigsAt(path) : cfg' = [cfg EXCEPT ![p] = config]
                 /\ pc' = [pc EXCEPT ![p] = IF c = "update" THEN "lock" ELSE "run_chdir"]
                 /\ result' = [result EXCEPT ![p] = "none"]
                 /\ exitCode' = [exitCode EXCEPT ![p] = Running]
    /\ UNCHANGED <<locks, exe, sysd, released, host>>

\* (variant: the lock attempt is granted whoever holds the lock)
LockFree_Always(p, name) == TRUE

\* (variant: one lock file for all programs, whatever the program name)
LockFree_AnyName(p, name) == \A n \in Names : locks[n] \ {p} = {}

\* fs2 try_lock_exclusive = flock(LOCK_EX | LOCK_NB): granted iff no other open
\* file description holds a lock on the file
LockFree(p, name) == locks[name] \ {p} = {}

\* (variant: the lock error is noted and update() goes on without the lock)
TryLock_NoBail(p) ==
    /\ pc[p] = "lock"
    /\ \E created \in Outcomes :
         IF ~created
         THEN /\ Return(p, "err", <<>>)
         ELSE /\ locks' = [locks EXCEPT ![cfg[p].program_name] =
                             IF LockFree(p, cfg[p].program_name) THEN @ \cup {p} ELSE @]
              /\ pc' = [pc EXCEPT ![p] = "chdir"]
              /\ trace' = [trace EXCEPT ![p] = @ \o
                     <<Ev(IF LockFree(p, cfg[p].program_name) THEN "lock_ok" ELSE "lock_fail", 0, "")>>]
              /\ UNCHANGED <<result, released>>
    /\ UNCHANGED <<command, cfg, ci, cwd, exe, sysd, exitCode, runs, host>>

\* File::create(lock_path)? then try_lock_exclusive
TryLock(p) ==
    /\ pc[p] = "lock"
    /\ \E created \in Outcomes :
         IF ~created
         THEN /\ Return(p, "err", <<>>)
         ELSE IF LockFree(p, cfg[p].program_name)
         THEN /\ locks' = [locks EXCEPT ![cfg[p].program_name] = @ \cup {p}]
              /\ pc' = [pc EXCEPT ![p] = "chdir"]
              /\ trace' = [trace EXCEPT ![p] = @ \o <<Ev("lock_ok", 0, "")>>]
              /\ UNCHANGED <<result, released>>
         ELSE /\ Return(p, "err", <<Ev("lock_fail", 0, "")>>)
    /\ UNCHANGED <<command, cfg, ci, cwd, exe, sysd, exitCode, runs, host>>

\* config_path.parent().context(..)? then env::set_current_dir(config_dir)?

SetCurrentDir(p) ==
    /\ pc[p] = "chdir"
    /\ IF ~HasParent(cfg[p].path) \/ ~DirExists(Parent(cfg[p].path))
       THEN /\ Return(p, "err", <<>>)
            /\ UNCHANGED <<cwd, ci>>
       ELSE /\ cwd' = [cwd EXCEPT ![p] = Resolve(cwd[p], Parent(cfg[p].path))]
            /\ ci' = [ci EXCEPT ![p] = 1]
            /\ pc' = [pc EXCEPT ![p] = "cmds"]
            \* history only: the executable as it is when the command batch begins
            /\ trace' = [trace EXCEPT ![p] =
                   @ \o <<Ev("cmds_begin", 0, exe[cfg[p].program_name].data)>>]
            /\ UNCHANGED <<result, locks, released>>
    /\ UNCHANGED <<command, cfg, exe, sysd, exitCode, runs, host>>

\* (variant: the exit status of an update command is not looked at)
Success_Always(status) == TRUE

\* ExitStatus::success
Success(status) == status = 0

\* head of `for cmd in &config.update.commands`: Command::new("bash")...status()?
\* spawns the next command, or the loop is over
SpawnCmd(p) ==
    /\ pc[p] = "cmds"
    /\ IF ci[p] > cfg[p].ncmds
       THEN /\ pc' = [pc EXCEPT ![p] = "current_exe"]
            /\ trace' = [trace EXCEPT ![p] =
                   @ \o <<Ev("cmds_end", 0, exe[cfg[p].program_name].data)>>]
            /\ UNCHANGED <<result, locks, released>>
       ELSE \E spawned \in Outcomes :
              IF spawned
              THEN /\ pc' = [pc EXCEPT ![p] = "wait"]
                   /\ trace' = [trace EXCEPT ![p] = @ \o <<Ev("cmd_start", ci[p], "")>>]
                   /\ UNCHANGED <<result, locks, released>>
              ELSE Return(p, "err", <<Ev("spawn_error", ci[p], "bash")>>)
    /\ UNCHANGED <<command, cfg, ci, cwd, exe, sysd, exitCode, runs, host>>

\* the child exits: status() returns; the command may have rebuilt, removed or
\* left alone the executable; a non-zero status bails out of update()
CmdExit(p) ==
    /\ pc[p] = "wait"
    /\ \E status \in ExitStatuses, built \in host.builds \cup {exe[cfg[p].program_name]} :
         /\ exe' = [exe EXCEPT ![cfg[p].program_name] = built]
         /\ IF Success(status)
            THEN /\ ci' = [ci EXCEPT ![p] = @ + 1]
                 /\ pc' = [pc EXCEPT ![p] = "cmds"]
                 /\ trace' = [trace EXCEPT ![p] =
                        @ \o <<Ev("cmd_exit", ci[p], ToString(status))>>]
                 /\ UNCHANGED <<result, locks, released>>
            ELSE /\ Return(p, "err", <<Ev("cmd_exit", ci[p], ToString(status))>>)
                 /\ UNCHANGED ci
    /\ UNCHANGED <<command, cfg, cwd, sysd, exitCode, runs, host>>

\* env::current_exe()?
CurrentExe(p) ==
    /\ pc[p] = "current_exe"
    /\ \E found \in Outcomes :
         IF found
         THEN /\ pc' = [pc EXCEPT ![p] = "write_update_svc"]
              /\ UNCHANGED <<result, locks, trace, released>>
         ELSE Return(p, "err", <<>>)
    /\ UNCHANGED <<command, cfg, ci, cwd, exe, sysd, exitCode, runs, host>>

\* how the file at the unit's path compares with the text about to be written
Prior(name, content) ==
    IF ~sysd[name].exists THEN "absent"
    ELSE IF sysd[name].data = content THEN "same" ELSE "differs"

\* (variant: an idempotent installer, which leaves an identical file alone)
AtomicWrite_IfChanged(p, name, content, next) ==
    \E written \in Outcomes :
      IF Prior(name, content) = "same"
      THEN /\ pc' = [pc EXCEPT ![p] = next]
           /\ UNCHANGED <<sysd, trace, result, locks, released>>
      ELSE IF written
      THEN /\ sysd' = [sysd EXCEPT ![name] = File(content)]
           /\ pc' = [pc EXCEPT ![p] = next]
           /\ trace' = [trace EXCEPT ![p] = @ \o <<EvWrite(name, Prior(name, content))>>]
           /\ UNCHANGED <<result, locks, released>>
      ELSE /\ Return(p, "err", <<Ev("write_error", 0, name)>>)
           /\ UNCHANGED sysd

\* AtomicFile::new(path, AllowOverwrite).write(..)?: temporary file + rename; on an
\* error the file at the path is as it was
AtomicWrite(p, name, content, next) ==
    \E written \in Outcomes :
      IF written
      THEN /\ sysd' = [sysd EXCEPT ![name] = File(content)]
           /\ pc' = [pc EXCEPT ![p] = next]
           /\ trace' = [trace EXCEPT ![p] = @ \o <<EvWrite(name, Prior(name, content))>>]
           /\ UNCHANGED <<result, locks, released>>
      ELSE /\ Return(p, "err", <<Ev("write_error", 0, name)>>)
           /\ UNCHANGED sysd

WriteUpdateSvc(p) ==
    /\ pc[p] = "write_update_svc"
    /\ AtomicWrite(p, UpdateSvcName(cfg[p].program_name), UpdateUnit(cfg[p]),
                   "write_update_timer")
    /\ UNCHANGED <<command, cfg, ci, cwd, exe, exitCode, runs, host>>

\* (variant: the run service file is not written)
WriteUpdateTimer_SkipsRunSvc(p) ==
    /\ pc[p] = "write_update_timer"
    /\ AtomicWrite(p, UpdateTimerName(cfg[p].program_name), TimerUnit(cfg[p]),
                   "daemon_reload")
    /\ UNCHANGED <<command, cfg, ci, cwd, exe, exitCode, runs, host>>

WriteUpdateTimer(p) ==
    /\ pc[p] = "write_update_timer"
    /\ AtomicWrite(p, UpdateTimerName(cfg[p].program_name), TimerUnit(cfg[p]),
                   "write_run_svc")
    /\ UNCHANGED <<command, cfg, ci, cwd, exe, exitCode, runs, host>>

WriteRunSvc(p) ==
    /\ pc[p] = "write_run_svc"
    /\ AtomicWrite(p, RunSvcName(cfg[p].program_name), RunUnit(cfg[p]), "daemon_reload")
    /\ UNCHANGED <<command, cfg, ci, cwd, exe, exitCode, runs, host>>

\* (variant: a systemctl request that exited non-zero is issued a second time)
Systemctl_Retry(p, request, next) ==
    \E spawned \in Outcomes, status \in host.systemctl :
      IF spawned
      THEN /\ pc' = [pc EXCEPT ![p] =
                      IF status # 0 /\ ~ \E j \in 1..Len(trace[p]) : trace[p][j].s = request
                      THEN pc[p] ELSE next]
           /\ trace' = [trace EXCEPT ![p] = @ \o <<Ev("systemctl", status, request)>>]
           /\ UNCHANGED <<result, locks, released>>
      ELSE Return(p, "err", <<Ev("spawn_error", 0, "systemctl")>>)

\* Command::new("systemctl").args(..).status()?: only a spawn error is an error;
\* the exit status of systemctl is not looked at
Systemctl(p, request, next) ==
    \E spawned \in Outcomes, status \in host.systemctl :
      IF spawned
      THEN /\ pc' = [pc EXCEPT ![p] = next]
           /\ trace' = [trace EXCEPT ![p] = @ \o <<Ev("systemctl", status, request)>>]
           /\ UNCHANGED <<result, locks, released>>
      ELSE Return(p, "err", <<Ev("spawn_error", 0, "systemctl")>>)

ReloadRequest == "daemon-reload"
EnableRequest(unit) == "enable --now " \o unit
RestartRequest(unit) == "restart " \o unit

\* (variant: the reload is issued only if a unit file changed)
DaemonReload_IfChanged(p) ==
    /\ pc[p] = "daemon_reload"
    /\ IF \E j \in 1..Len(trace[p]) : trace[p][j].k = "write" /\ trace[p][j].was # "same"
       THEN Systemctl(p, ReloadRequest, "enable_timer")
       ELSE /\ pc' = [pc EXCEPT ![p] = "enable_timer"]
            /\ UNCHANGED <<trace, result, locks, released>>
    /\ UNCHANGED <<command, cfg, ci, cwd, exe, sysd, exitCode, runs, host>>

DaemonReload(p) ==
    /\ pc[p] = "daemon_reload"
    /\ Systemctl(p, ReloadRequest, "enable_timer")
    /\ UNCHANGED <<command, cfg, ci, cwd, exe, sysd, exitCode, runs, host>>

\* (variant: the timer is enabled only when its unit file was new or changed)
EnableTimer_IfChanged(p) ==
    /\ pc[p] = "enable_timer"
    /\ IF \E j \in 1..Len(trace[p]) :
            /\ trace[p][j].k = "write"
            /\ trace[p][j].s = UpdateTimerName(cfg[p].program_name)
            /\ trace[p][j].was # "same"
       THEN Systemctl(p, EnableRequest(UpdateTimerName(cfg[p].program_name)),
                      "restart_if_changed")
       ELSE /\ pc' = [pc EXCEPT ![p] = "restart_if_changed"]
            /\ UNCHANGED <<trace, result, locks, released>>
    /\ UNCHANGED <<command, cfg, ci, cwd, exe, sysd, exitCode, runs, host>>

EnableTimer(p) ==
    /\ pc[p] = "enable_timer"
    /\ Systemctl(p, EnableRequest(UpdateTimerName(cfg[p].program_name)), "restart_if_changed")
    /\ UNCHANGED <<command, cfg, ci, cwd, exe, sysd, exitCode, runs, host>>

(* ---- restart_if_changed, main.rs 180-201 ----------------------------------- *)
\* Sha256::digest(&fs::read(path)?): distinct bytes give distinct digests
Digest(file) == <<"sha256", file.data>>

\* (variant: the run service is restarted on every update)
Changed_Always(before, after) == TRUE

\* `before != after`
Changed(before, after) == before # after

\* both digests are taken here, one after the other, once the update commands
\* are over; then update() logs completion and returns Ok
RestartIfChanged(p) ==
    /\ pc[p] = "restart_if_changed"
    /\ LET file == exe[cfg[p].program_name]
           run_svc == RunSvcName(cfg[p].program_name)
       IN  IF ~file.exists
           THEN Return(p, "err", <<Ev("read_error", 0, "binary_path")>>)
           ELSE LET before == Digest(file)
                    after == Digest(file)
                    read == <<Ev("digest_before", 0, file.data),
                              Ev("digest_after", 0, file.data)>>
                IN  IF Changed(before, after)
                    THEN \E spawned \in Outcomes, status \in host.systemctl :
                           IF spawned
                           THEN Return(p, "ok", read \o
                                  <<Ev("systemctl", status, RestartRequest(run_svc))>>)
                           ELSE Return(p, "err", read \o
                                  <<Ev("spawn_error", 0, "systemctl")>>)
                    ELSE Return(p, "ok", read)
    /\ UNCHANGED <<command, cfg, ci, cwd, exe, sysd, exitCode, runs, host>>

(* ---- run(), main.rs 49-69 ---------------------------------------------------- *)
\* run() holds no lock file: leaving it changes no lock
RunReturn(p, res, evs) ==
    /\ pc' = [pc EXCEPT ![p] = "returned"]
    /\ result' = [result EXCEPT ![p] = res]
    /\ trace' = [trace EXCEPT ![p] = @ \o evs]
    /\ UNCHANGED <<locks, released>>

\* (variant: run() gives up with the lock error while the program's lock is held)
RunSetCurrentDir_Locked(p) ==
    /\ pc[p] = "run_chdir"
    /\ IF ~LockFree(p, cfg[p].program_name)
       THEN /\ RunReturn(p, "err", <<Ev("lock_fail", 0, "")>>)
            /\ UNCHANGED <<cwd, ci>>
       ELSE /\ cwd' = [cwd EXCEPT ![p] = Resolve(cwd[p], Parent(cfg[p].path))]
            /\ ci' = [ci EXCEPT ![p] = 1]
            /\ pc' = [pc EXCEPT ![p] = "run_cmds"]
            /\ UNCHANGED <<trace, result, locks, released>>
    /\ UNCHANGED <<command, cfg, exe, sysd, exitCode, runs, host>>

\* config_path.parent().context(..)? then env::set_current_dir(config_dir)?
RunSetCurrentDir(p) ==
    /\ pc[p] = "run_chdir"
    /\ IF ~HasParent(cfg[p].path) \/ ~DirExists(Parent(cfg[p].path))
       THEN /\ RunReturn(p, "err", <<>>)
            /\ UNCHANGED <<cwd, ci>>
       ELSE /\ cwd' = [cwd EXCEPT ![p] = Resolve(cwd[p], Parent(cfg[p].path))]
            /\ ci' = [ci EXCEPT ![p] = 1]
            /\ pc' = [pc EXCEPT ![p] = "run_cmds"]
            /\ UNCHANGED <<trace, result, locks, released>>
    /\ UNCHANGED <<command, cfg, exe, sysd, exitCode, runs, host>>

\* head of `for cmd in &config.run.commands`: spawn bash for the next command; a
\* spawn error panics (unwrap_or_else); after the last command run() returns Ok
RunSpawnCmd(p) ==
    /\ pc[p] = "run_cmds"
    /\ IF ci[p] > cfg[p].nrun
       THEN /\ RunReturn(p, "ok", <<>>)
            /\ UNCHANGED exitCode
       ELSE \E spawned \in Outcomes :
              IF spawned
              THEN /\ pc' = [pc EXCEPT ![p] = "run_wait"]
                   /\ trace' = [trace EXCEPT ![p] = @ \o <<Ev("run_start", ci[p], "")>>]
                   /\ UNCHANGED <<result, locks, released, exitCode>>
              ELSE /\ pc' = [pc EXCEPT ![p] = "exited"]
                   /\ result' = [result EXCEPT ![p] = "panic"]
                   /\ exitCode' = [exitCode EXCEPT ![p] = 101]
                   /\ UNCHANGED <<trace, locks, released>>
    /\ UNCHANGED <<command, cfg, ci, cwd, exe, sysd, runs, host>>

\* the child exits; a non-zero status bails out of run()
RunCmdExit(p) ==
    /\ pc[p] = "run_wait"
    /\ \E status \in ExitStatuses :
         IF Success(status)
         THEN /\ ci' = [ci EXCEPT ![p] = @ + 1]
              /\ pc' = [pc EXCEPT ![p] = "run_cmds"]
              /\ trace' = [trace EXCEPT ![p] =
                     @ \o <<Ev("run_exit", ci[p], ToString(status))>>]
              /\ UNCHANGED <<result, locks, released>>
         ELSE /\ RunReturn(p, "err", <<Ev("run_exit", ci[p], ToString(status))>>)
              /\ UNCHANGED ci
    /\ UNCHANGED <<command, cfg, cwd, exe, sysd, exitCode, runs, host>>

(* ---- main, main.rs 35-47 ------------------------------------------------------ *)
\* the status the process ends with after update() returned `res`: main logs an
\* Err and then returns normally
ExitStatusOf(res) == 0

Main(p) ==
    /\ pc[p] = "returned"
    /\ pc' = [pc EXCEPT ![p] = "exited"]
    /\ exitCode' = [exitCode EXCEPT ![p] = ExitStatusOf(result[p])]
    /\ trace' = [trace EXCEPT ![p] =
           IF result[p] = "err" THEN @ \o <<Ev("log_error", 0, "")>> ELSE @]
    /\ UNCHANGED <<command, cfg, ci, cwd, locks, exe, sysd, result, runs, released, host>>

Next ==
    \E p \in Procs :
       \/ ParseConfig(p)
       \/ TryLock(p)
       \/ SetCurrentDir(p)
       \/ SpawnCmd(p)
       \/ CmdExit(p)
       \/ CurrentExe(p)
       \/ WriteUpdateSvc(p)
       \/ WriteUpdateTimer(p)
       \/ WriteRunSvc(p)
       \/ DaemonReload(p)
       \/ EnableTimer(p)
       \/ RestartIfChanged(p)
       \/ RunSetCurrentDir(p)
       \/ RunSpawnCmd(p)
       \/ RunCmdExit(p)
       \/ Main(p)

Spec == Init /\ [][Next]_vars
SpecConcurrent == InitConcurrent /\ [][Next]_vars

\* The steps of an invocation once it was started. Starting one (ParseConfig) is up
\* to whoever calls the program; a started process is scheduled, and the children
\* it waits for exit.
Step(p) ==
    \/ TryLock(p) \/ SetCurrentDir(p) \/ SpawnCmd(p) \/ CmdExit(p) \/ CurrentExe(p)
    \/ WriteUpdateSvc(p) \/ WriteUpdateTimer(p) \/ WriteRunSvc(p)
    \/ DaemonReload(p) \/ EnableTimer(p) \/ RestartIfChanged(p)
    \/ RunSetCurrentDir(p) \/ RunSpawnCmd(p) \/ RunCmdExit(p)
    \/ Main(p)
SpecLive == Init /\ [][Next]_vars /\ \A p \in Procs : WF_vars(Step(p))

(* ======================= properties ======================================= *)
Idx(p) == 1..Len(trace[p])
Has(p, k) == \E j \in Idx(p) : trace[p][j].k = k
Requests(p, request) ==
    { j \in Idx(p) : trace[p][j].k = "systemctl" /\ trace[p][j].s = request }
WriteEvents(p) == { j \in Idx(p) : trace[p][j].k = "write" }
IsCmdEvent(e) == e.k \in {"cmd_start", "cmd_exit"}
CmdEvents(p) == SelectSeq(trace[p], IsCmdEvent)
IsWrite(e) == e.k = "write"
Written(p) == SelectSeq(trace[p], IsWrite)
FailedCmd(p) == \E j \in Idx(p) : trace[p][j].k = "cmd_exit" /\ trace[p][j].s # "0"
Left(p) == pc[p] \in {"returned", "exited"}
\* update() returned Ok
UpdateOk(p) == command[p] = "update" /\ result[p] = "ok"
\* the bytes at binary_path when the command batch began / was over ("" = no file)
BytesAt(p, k) ==
    IF Has(p, k) THEN trace[p][CHOOSE j \in Idx(p) : trace[p][j].k = k].s ELSE ""
BytesBefore(p) == BytesAt(p, "cmds_begin")
BytesAfter(p) == BytesAt(p, "cmds_end")
\* positions of update() after the lock was acquired
AfterLock ==
    {"chdir", "cmds", "wait", "current_exe", "write_update_svc", "write_update_timer",
     "write_run_svc", "daemon_reload", "enable_timer", "restart_if_changed"}
AfterWrites == {"daemon_reload", "enable_timer", "restart_if_changed"}
Holders(name) == { p \in Procs : pc[p] \in AfterLock /\ cfg[p].program_name = name }

(* ---- C1 ------------------------------------------------------------------ *)
C1_OneAtATime == \A n \in Names : Cardinality(Holders(n)) <= 1
C1_NeverWaits == \A p \in Procs : pc[p] = "lock" => ENABLED TryLock(p)
C1_FailsFast ==
    \A p \in Procs :
      (pc[p] = "lock" /\ pc'[p] # "lock" /\ Holders(cfg[p].program_name) \ {p} # {})
        => /\ pc'[p] = "returned"
           /\ result'[p] = "err"
           /\ locks' = locks
           /\ \A q \in Procs \ {p} : pc'[q] = pc[q]

\* C1: of the update invocations for one program name at most one at a time is past
\* lock acquisition; the lock attempt is never blocked, and an attempt made while
\* another invocation holds the lock ends in that same step with an error, the
\* holder undisturbed.
C1_MutualExclusion == [](C1_OneAtATime /\ C1_NeverWaits) /\ [][C1_FailsFast]_vars

C1_Witness ==
    \E p, q \in Procs :
      /\ p # q
      /\ cfg[p].program_name = cfg[q].program_name
      /\ pc[p] \in AfterLock
      /\ Left(q) /\ result[q] = "err" /\ Has(q, "lock_fail")

(* ---- C2 ------------------------------------------------------------------ *)
C2_HeldOnlyInsideUpdate == \A n \in Names : locks[n] \subseteq Holders(n)
C2_LockErrorOnlyWhileHeld ==
    \A p \in Procs :
      (pc[p] = "lock" /\ Len(trace'[p]) > 0 /\ trace'[p][Len(trace'[p])].k = "lock_fail")
        => Holders(cfg[p].program_name) \ {p} # {}

\* C2: once an update invocation has returned, by whatever exit path, it no longer
\* holds the lock: the lock of a program is held only by an invocation that is
\* inside update() past lock acquisition, and an invocation gets the lock error
\* only while such an invocation exists.
C2_LockReleasedOnReturn == []C2_HeldOnlyInsideUpdate /\ [][C2_LockErrorOnlyWhileHeld]_vars

C2_Witness ==
    \E p \in Procs :
      /\ pc[p] = "chdir"
      /\ Has(p, "lock_ok")
      /\ released[cfg[p].program_name] = "err"

(* ---- C3 ------------------------------------------------------------------ *)
\* C3: the update commands are started in list order, each after the one before it
\* has exited; a command that exits non-zero is the last one started, and the
\* commands after it are never started; when none fails, all N are run.
C3_CommandsInOrderUntilFailure ==
    \A p \in Procs :
      LET ev == CmdEvents(p)
      IN  /\ Len(ev) <= 2 * cfg[p].ncmds
          /\ \A j \in 1..Len(ev) :
               IF j % 2 = 1
               THEN ev[j].k = "cmd_start" /\ ev[j].i = (j + 1) \div 2
               ELSE ev[j].k = "cmd_exit" /\ ev[j].i = j \div 2
          /\ \A j \in 1..Len(ev) :
               (ev[j].k = "cmd_exit" /\ ev[j].s # "0") => (j = Len(ev) /\ Left(p))
          /\ Has(p, "cmds_end") => Len(ev) = 2 * cfg[p].ncmds

C3_Witness ==
    \E p \in Procs :
      /\ cfg[p].ncmds = MaxCmds
      /\ Left(p)
      /\ Len(CmdEvents(p)) = 2
      /\ CmdEvents(p)[2].s # "0"

(* ---- C4 ------------------------------------------------------------------ *)
\* C4: an invocation one of whose update commands exited non-zero has returned an
\* error without writing a unit file and without any service-manager request.
C4_FailedCommandStopsUpdate ==
    \A p \in Procs :
      FailedCmd(p) =>
        /\ Left(p) /\ result[p] = "err"
        /\ WriteEvents(p) = {}
        /\ ~Has(p, "systemctl")

C4_Witness ==
    \E p \in Procs :
      /\ FailedCmd(p)
      /\ pc[p] = "exited"
      /\ \A f \in UnitFileNames : ~sysd[f].exists

(* ---- C5 ------------------------------------------------------------------ *)
\* C5: an update that completed, and during whose update commands the bytes of the
\* watched executable changed, has issued exactly one restart of the run service.
C5_RestartWhenChanged ==
    \A p \in Procs :
      (UpdateOk(p) /\ BytesBefore(p) # "" /\ BytesBefore(p) # BytesAfter(p))
        => Cardinality(Requests(p, RestartRequest(RunSvcName(cfg[p].program_name)))) = 1

(* ---- C6 ------------------------------------------------------------------ *)
\* C6: an update invocation across whose update commands the bytes of the watched
\* executable stayed the same issues no restart of the run service.
C6_NoRestartWhenUnchanged ==
    \A p \in Procs :
      (Has(p, "cmds_end") /\ BytesBefore(p) = BytesAfter(p))
        => Requests(p, RestartRequest(RunSvcName(cfg[p].program_name))) = {}

C6_Witness ==
    \E p \in Procs :
      /\ result[p] = "ok"
      /\ cfg[p].ncmds > 0
      /\ BytesBefore(p) # ""
      /\ BytesBefore(p) = BytesAfter(p)

C9_FailureExitsNonZero ==
    \A p \in Procs :
      (pc[p] = "exited" /\ result[p] = "err")
        => (Has(p, "log_error") /\ exitCode[p] # 0)

(* ---- C10 ----------------------------------------------------------------- *)
FirstInstall(p) ==
    /\ Len(Written(p)) = 3
    /\ \A j \in WriteEvents(p) : trace[p][j].was = "absent"
RunUnitWasInstalled(p) ==
    \E j \in WriteEvents(p) :
      trace[p][j].s = RunSvcName(cfg[p].program_name) /\ trace[p][j].was # "absent"
EnableRunRequests(p) == Requests(p, EnableRequest(RunSvcName(cfg[p].program_name)))

\* C10: a successful first update of a program (no unit file installed before) has
\* issued an enable+start of the run service and no restart; a successful update
\* that found the run unit installed has issued no enable+start of the run service.
C10_RunServiceEnabledOnFirstInstall ==
    \A p \in Procs :
      UpdateOk(p) =>
        /\ FirstInstall(p) =>
             /\ Cardinality(EnableRunRequests(p)) = 1
             /\ Requests(p, RestartRequest(RunSvcName(cfg[p].program_name))) = {}
        /\ RunUnitWasInstalled(p) => EnableRunRequests(p) = {}

(* ---- C11 ----------------------------------------------------------------- *)
EnableTimerRequests(p) == Requests(p, EnableRequest(UpdateTimerName(cfg[p].program_name)))

\* C11: an update invocation issues the enable+start of the update timer at most
\* once, and one that completed has issued it exactly once, whether or not a unit
\* file or the executable changed.
C11_TimerEnabledOnce ==
    \A p \in Procs :
      /\ Cardinality(EnableTimerRequests(p)) <= 1
      /\ UpdateOk(p) => Cardinality(EnableTimerRequests(p)) = 1

C11_Witness ==
    \E p \in Procs :
      /\ result[p] = "ok"
      /\ Cardinality(EnableTimerRequests(p)) = 1
      /\ Len(Written(p)) = 3
      /\ \A j \in WriteEvents(p) : trace[p][j].was = "same"
      /\ BytesBefore(p) = BytesAfter(p)

(* ---- C12 ----------------------------------------------------------------- *)
\* the two texts are one text except for the decimal number after "OnUnitActiveSec="
RecurrenceKey == "OnUnitActiveSec="
DiffersOnlyInRecurrence(t1, t2) ==
    \E i1, i2 \in Intervals : \E k \in Len(RecurrenceKey)..Len(t1) :
      LET head == SubSeq(t1, 1, k)
          tail == SubSeq(t1, k + Len(ToString(i1)) + 1, Len(t1))
      IN  /\ SubSeq(t1, k - Len(RecurrenceKey) + 1, k) = RecurrenceKey
          /\ t1 = head \o ToString(i1) \o tail
          /\ t2 = head \o ToString(i2) \o tail
SameGenerationInputs(c1, c2) ==
    c1.program_name = c2.program_name /\ c1.path = c2.path
\* (the host never changes: its configs are compared where no invocation has started)
C12_GeneratedTexts ==
    \A c1, c2 \in host.configs :
      (runs = 0 /\ SameGenerationInputs(c1, c2)) =>
        /\ UpdateUnit(c1) = UpdateUnit(c2)
        /\ RunUnit(c1) = RunUnit(c2)
        /\ DiffersOnlyInRecurrence(TimerUnit(c1), TimerUnit(c2))
        /\ c1.interval = c2.interval => TimerUnit(c1) = TimerUnit(c2)
C12_InstalledTexts ==
    \A n \in Names :
      /\ sysd[UpdateSvcName(n)].exists => sysd'[UpdateSvcName(n)] = sysd[UpdateSvcName(n)]
      /\ sysd[RunSvcName(n)].exists => sysd'[RunSvcName(n)] = sysd[RunSvcName(n)]
      /\ (sysd[UpdateTimerName(n)].exists /\ sysd'[UpdateTimerName(n)] # sysd[UpdateTimerName(n)]) =>
           /\ sysd'[UpdateTimerName(n)].exists
           /\ DiffersOnlyInRecurrence(sysd[UpdateTimerName(n)].data,
                                      sysd'[UpdateTimerName(n)].data)

\* C12: the unit texts depend on the program name, the config path and the path of
\* the deploy-helper executable only, the timer text on update.interval as well:
\* configs of one program at one path give the same update-service and run-service
\* text, and timer texts that are equal up to the recurrence value (equal when the
\* intervals are equal); so do the files successive invocations install.
C12_UnitGeneration == []C12_GeneratedTexts /\ [][C12_InstalledTexts]_vars

C12_Witness ==
    \E p \in Procs :
      /\ result[p] = "ok"
      /\ \E j \in WriteEvents(p) :
           trace[p][j].s = UpdateTimerName(cfg[p].program_name) /\ trace[p][j].was = "differs"
      /\ \E j \in WriteEvents(p) :
           trace[p][j].s = UpdateSvcName(cfg[p].program_name) /\ trace[p][j].was = "same"
      /\ \E j \in WriteEvents(p) :
           trace[p][j].s = RunSvcName(cfg[p].program_name) /\ trace[p][j].was = "same"

(* ---- C13 ----------------------------------------------------------------- *)
IsRunEvent(e) == e.k \in {"run_start", "run_exit"}
RunEvents(p) == SelectSeq(trace[p], IsRunEvent)

C14_DigestsAroundCommands ==
    \A p \in Procs : \A j, m \in Idx(p) :
      IsCmdEvent(trace[p][m]) =>
        /\ trace[p][j].k = "digest_before" => j < m
        /\ trace[p][j].k = "digest_after" => m < j

(* ---- C15 ----------------------------------------------------------------- *)
\* C15: a service-manager command that exited non-zero is the last step of its
\* invocation, which returned an error.
C15_SystemctlFailureStopsUpdate ==
    \A p \in Procs : \A j \in Idx(p) :
      (trace[p][j].k = "systemctl" /\ trace[p][j].i # 0)
        => /\ Left(p) /\ result[p] = "err"
           /\ \A m \in Idx(p) : m > j => trace[p][m].k = "log_error"

(* ---- C16 ----------------------------------------------------------------- *)
\* C16: the lock is per program name: a lock attempt made while no invocation for
\* the same program name is past lock acquisition does not end in the lock error,
\* whatever invocations for other program names hold; unless the lock file could
\* not be created it is granted, and the other holders keep their locks.
C16_OtherNamesDoNotContend ==
    \A p \in Procs :
      (pc[p] = "lock" /\ pc'[p] # "lock" /\ Holders(cfg[p].program_name) \ {p} = {})
        => /\ ~ \E j \in 1..Len(trace'[p]) : trace'[p][j].k = "lock_fail"
           /\ pc'[p] = "chdir" \/ host.faults
           /\ pc'[p] = "chdir" => p \in locks'[cfg[p].program_name]
           /\ \A n \in Names \ {cfg[p].program_name} : locks'[n] = locks[n]

C16_DifferentNamesNeverContend == [][C16_OtherNamesDoNotContend]_vars

C16_Witness ==
    \E p, q \in Procs :
      /\ cfg[p].program_name # cfg[q].program_name
      /\ command[p] = "update" /\ command[q] = "update"
      /\ pc[p] \in AfterLock /\ pc[q] \in AfterLock
      /\ p \in locks[cfg[p].program_name] /\ q \in locks[cfg[q].program_name]

(* ---- C17 ----------------------------------------------------------------- *)
InUpdate(p) == command[p] = "update" /\ pc[p] \in {"lock"} \cup AfterLock
C17_AtMostOnce ==
    \A p \in Procs :
      /\ Cardinality({ j \in Idx(p) : trace[p][j].k \in {"lock_ok", "lock_fail"} }) <= 1
      /\ \A i \in 1..MaxCmds :
           Cardinality({ j \in Idx(p) : trace[p][j].k = "cmd_start" /\ trace[p][j].i = i }) <= 1
      /\ \A j, m \in Idx(p) :
           (trace[p][j].k = "systemctl" /\ trace[p][m].k = "systemctl" /\ j # m)
             => trace[p][j].s # trace[p][m].s

\* C17: nothing is retried: an update invocation attempts the lock at most once,
\* starts each update command at most once and issues each systemctl request at most
\* once; and, its children exiting, an invocation inside update() gets to the
\* return of update() with Ok or Err.
C17_NoRetryAndTerminates ==
    /\ []C17_AtMostOnce
    /\ \A p \in Procs : InUpdate(p) ~> (Left(p) /\ result[p] \in {"ok", "err"})

C17_Witness ==
    \E p \in Procs :
      /\ command[p] = "update" /\ Left(p) /\ result[p] = "ok"
      /\ cfg[p].ncmds = MaxCmds
      /\ Len(CmdEvents(p)) = 2 * MaxCmds
      /\ \E j, m \in Idx(p) : j # m /\ trace[p][j].k = "systemctl" /\ trace[p][m].k = "systemctl"

(* ---- C18 ----------------------------------------------------------------- *)
C18_NothingAfterLockError ==
    \A p \in Procs :
      Has(p, "lock_fail")
        => /\ Left(p) /\ result[p] = "err"
           /\ cwd[p] = StartDir
           /\ \A n \in Names : p \notin locks[n]
           /\ trace[p][1].k = "lock_fail"
           /\ \A j \in Idx(p) : j > 1 => trace[p][j].k = "log_error"
C18_LockErrorStep ==
    \A p \in Procs :
      (~Has(p, "lock_fail") /\ \E j \in 1..Len(trace'[p]) : trace'[p][j].k = "lock_fail")
        => /\ locks' = locks /\ sysd' = sysd /\ exe' = exe /\ cwd' = cwd
           /\ \A q \in Procs \ {p} : pc'[q] = pc[q] /\ trace'[q] = trace[q] /\ result'[q] = result[q]

\* C18: an update invocation whose lock attempt failed does nothing else: it changes
\* no directory, starts no command, writes no unit file, issues no systemctl request
\* and holds no lock; the step that fails leaves the locks, the unit files, the
\* executable and every other invocation as they were.
C18_FailedLockHasNoEffect == []C18_NothingAfterLockError /\ [][C18_LockErrorStep]_vars

C18_Witness ==
    \E p, q \in Procs :
      /\ p # q
      /\ Has(p, "lock_fail") /\ pc[p] = "exited"
      /\ q \in locks[cfg[p].program_name]
      /\ pc[q] \in AfterLock \ {"chdir"}

(* ---- C19 ----------------------------------------------------------------- *)
\* the place of an event in the order of update(); 0 for the events that are no step
StepRank(p, e) ==
    LET n == cfg[p].program_name
    IN  IF IsCmdEvent(e) THEN 1
        ELSE IF e.k = "write" /\ e.s = UpdateSvcName(n) THEN 2
        ELSE IF e.k = "write" /\ e.s = UpdateTimerName(n) THEN 3
        ELSE IF e.k = "write" /\ e.s = RunSvcName(n) THEN 4
        ELSE IF e.k = "systemctl" /\ e.s = ReloadRequest THEN 5
        ELSE IF e.k = "systemctl" /\ e.s = EnableRequest(UpdateTimerName(n)) THEN 6
        ELSE IF e.k \in {"digest_before", "digest_after", "read_error"} THEN 7
        ELSE IF e.k = "systemctl" THEN 8
        ELSE 0
Ranks(p) == { StepRank(p, trace[p][j]) : j \in Idx(p) } \ {0}
UnitText(c, name) ==
    IF name = UpdateSvcName(c.program_name) THEN UpdateUnit(c)
    ELSE IF name = UpdateTimerName(c.program_name) THEN TimerUnit(c)
    ELSE RunUnit(c)

C19_InOrder ==
    \A p \in Procs : \A j, m \in Idx(p) :
      LET rj == StepRank(p, trace[p][j])
          rm == StepRank(p, trace[p][m])
      IN  (j < m /\ rj > 0 /\ rm > 0) => (rj <= rm /\ (rj \in 2..6 => rj < rm))
C19_NoStepSkipped ==
    \A p \in Procs :
      /\ \A r \in Ranks(p) : \A q \in 2..(r - 1) : q \in Ranks(p)
      /\ (Ranks(p) \ {1} # {}) =>
           /\ Len(CmdEvents(p)) = 2 * cfg[p].ncmds
           /\ ~FailedCmd(p)
      /\ Has(p, "systemctl") => Len(Written(p)) = 3
C19_WriteFailure ==
    \A p \in Procs :
      Has(p, "write_error")
        => /\ ~Has(p, "systemctl")
           /\ Left(p) /\ result[p] = "err"
           /\ \A j \in WriteEvents(p) :
                sysd[trace[p][j].s] = File(UnitText(cfg[p], trace[p][j].s))

\* C19: the steps of an update invocation come in one order: the update commands,
\* the writes of the update service, update timer and run service files, the
\* reload, the timer enable, the restart decision; none is skipped, so no systemctl
\* request is issued before all three files are written; and an invocation whose
\* write failed issued no systemctl request and left the files it had written.
C19_FixedStepOrder == C19_InOrder /\ C19_NoStepSkipped /\ C19_WriteFailure

C19_Witness ==
    \E p \in Procs :
      /\ Left(p)
      /\ cfg[p].ncmds > 0
      /\ \E j \in Idx(p) :
           trace[p][j].k = "write_error" /\ trace[p][j].s = RunSvcName(cfg[p].program_name)
      /\ Len(Written(p)) = 2

(* ---- C20 ----------------------------------------------------------------- *)
InRun == {"run_chdir", "run_cmds", "run_wait"}
C20_RunHoldsNoLock ==
    \A p \in Procs :
      command[p] = "run"
        => /\ \A n \in Names : p \notin locks[n]
           /\ ~Has(p, "lock_ok") /\ ~Has(p, "lock_fail")
C20_RunNeverBlocked ==
    \A p \in Procs :
      /\ pc[p] = "run_chdir" => ENABLED RunSetCurrentDir(p)
      /\ (pc[p] = "run_chdir" /\ DirExists(Parent(cfg[p].path)))
           => ENABLED (RunSetCurrentDir(p) /\ pc'[p] = "run_cmds")
      /\ (pc[p] = "run_cmds" /\ ci[p] <= cfg[p].nrun)
           => ENABLED (RunSpawnCmd(p) /\ pc'[p] = "run_wait")
      /\ pc[p] = "run_wait" => ENABLED RunCmdExit(p)
C20_RunStep ==
    \A p \in Procs :
      /\ (pc[p] \in InRun /\ pc'[p] # pc[p]) => locks' = locks
      /\ (pc[p] = "lock" /\ ~Has(p, "lock_fail")
            /\ \E j \in 1..Len(trace'[p]) : trace'[p][j].k = "lock_fail")
           => \E q \in Procs \ {p} :
                /\ command[q] = "update"
                /\ q \in locks[cfg[p].program_name]

\* C20: a run invocation never takes or tests the lock: it holds no lock and never
\* gets the lock error, each of its steps can be taken whoever holds the lock of
\* its program, none of them changes a lock, and the lock error of an update
\* invocation is always due to another update invocation.
C20_RunIgnoresLock == [](C20_RunHoldsNoLock /\ C20_RunNeverBlocked) /\ [][C20_RunStep]_vars

C20_Witness ==
    \E p, q \in Procs :
      /\ command[p] = "run" /\ command[q] = "update"
      /\ pc[q] \in AfterLock \ {"chdir"}
      /\ pc[p] = "run_wait" /\ Has(p, "run_start")
      /\ cfg[p].program_name = cfg[q].program_name
      /\ q \in locks[cfg[q].program_name]
====
